---- MODULE Spec2Model ----
(***************************************************************************)
(* The X (Twitter) v2 MCP server: the tool handlers of index.ts and the    *)
(* TwitterService singleton behind them, in its two variants:              *)
(*   static   - src/unnamed/part_000 (handlers) + src/src/x/services.ts    *)
(*   percall  - src/src/index.ts (handlers) + src/unnamed/part_001         *)
(* An invocation is one tool call.  Its handler runs synchronously up to   *)
(* the first await (validation, getClient, the first remote call), then    *)
(* resumes once per remote answer.  Two invocations may overlap.           *)
(***************************************************************************)
EXTENDS Integers, Sequences, FiniteSets, TLC

\* Number of tool calls the transport delivers in one run.
MaxCalls == 2

\* An invocation and one that overlaps it.
Slots == {"a", "b"}

Modes == {"static", "percall"}

\* The four environment secrets read by the static getClient.
Secrets ==
  {"TWITTER_API_KEY", "TWITTER_API_KEY_SECRET",
   "TWITTER_ACCESS_TOKEN", "TWITTER_ACCESS_TOKEN_SECRET"}

\* private client: TwitterApi | null = null
NoClient == 0

\* An optional string field that was not supplied (JavaScript undefined).
Undef == "undefined"

\* Access tokens a caller may send; "" is the empty string.
Tokens == {"tokA"}
TokenValues == {Undef, ""} \cup Tokens

\* The sixteen server.tool registrations.
Ops ==
  {"get_tweets_by_userid", "get_tweet_by_id", "get_user_mentions",
   "quote_tweet", "reply_to_tweet", "post_tweet", "like_tweet",
   "follow_user", "unfollow_user", "get_user_by_username", "search_tweets",
   "get_trending_topics", "create_list", "add_list_member",
   "remove_list_member", "get_owned_lists"}

\* The server.tool registrations of each variant, in source order.
RegisteredToolsPerCallShort(variant) ==
  LET all == <<"get_tweets_by_userid", "get_tweet_by_id", "get_user_mentions",
               "quote_tweet", "reply_to_tweet", "post_tweet", "like_tweet",
               "follow_user", "unfollow_user", "get_user_by_username",
               "search_tweets", "get_trending_topics", "create_list",
               "add_list_member", "remove_list_member", "get_owned_lists">>
  IN IF variant = "percall" THEN SubSeq(all, 1, Len(all) - 1) ELSE all
RegisteredTools(variant) ==
  IF variant = "percall"
  THEN <<"get_tweets_by_userid", "get_tweet_by_id", "get_user_mentions",
         "quote_tweet", "reply_to_tweet", "post_tweet", "like_tweet",
         "follow_user", "unfollow_user", "get_user_by_username",
         "search_tweets", "get_trending_topics", "create_list",
         "add_list_member", "remove_list_member", "get_owned_lists">>
  ELSE <<"get_tweets_by_userid", "get_tweet_by_id", "get_user_mentions",
         "quote_tweet", "reply_to_tweet", "post_tweet", "like_tweet",
         "follow_user", "unfollow_user", "get_user_by_username",
         "search_tweets", "get_trending_topics", "create_list",
         "add_list_member", "remove_list_member", "get_owned_lists">>

\* Tools of the per-call variant whose schema declares config without
\* .optional().
ConfigRequired ==
  {"reply_to_tweet", "like_tweet", "unfollow_user", "search_tweets",
   "get_trending_topics"}

\* Tools whose schema has at least one required parameter besides config.
HasRequiredParam == Ops \ {"get_trending_topics", "get_owned_lists"}

\* Operations that look the caller up with v2.me() before acting.
IdentityOps == {"like_tweet", "follow_user", "unfollow_user", "get_owned_lists"}

-----------------------------------------------------------------------------
(* JavaScript values, as far as the handlers tell them apart. *)

Undefined == [kind |-> "undefined"]
ObjectVal(n) == [kind |-> "object", name |-> n]
\* An Error thrown by this code: no own enumerable property.
PlainError(msg) == [kind |-> "error", name |-> msg, own |-> FALSE]
\* An error object rejected by the remote client library.
RemoteError(e) == [kind |-> "error", name |-> e, own |-> TRUE]

AccessTokenRequired == PlainError("Access token is required")
CredentialsNotConfigured ==
  PlainError("Twitter credentials are not properly configured in environment variables")

RemoteErrors == {RemoteError("ApiResponseError")}

\* What JSON.stringify serialises of a value: an Error without own
\* enumerable properties serialises as the empty object.
toJSON(v) ==
  IF v.kind = "error" /\ ~v.own THEN ObjectVal("{}") ELSE v

\* JSON.stringify(value, null, 2): undefined for undefined, otherwise the
\* string that is the JSON text of the value.  A string is encoded as a JSON
\* string literal, which is a different string.
JSONstringify(v) ==
  IF v.kind = "undefined" THEN Undefined
  ELSE [kind |-> "string", json |-> toJSON(v)]

IsString(v) == v.kind = "string"

\* JSON.parse succeeds on t: t is a string holding a JSON text.
ParsesAsJSON(t) == IsString(t) /\ "json" \in DOMAIN t

\* JavaScript truthiness of an optional string.
Truthy(s) == s # Undef /\ s # ""

-----------------------------------------------------------------------------
(* imageBase64 of post_tweet: a string, held as a sequence of pieces so that *)
(* the prefix test and the substring tests of postTweet can be computed.     *)

NoImage == [given |-> FALSE, chars |-> <<>>]
ImageString(chars) == [given |-> TRUE, chars |-> chars]

PngPrefixed == ImageString(<<"data:image/png", ";base64,", "QUJD">>)
RawBase64 == ImageString(<<"QUJD">>)
PngMarkerLater == ImageString(<<"QUJD", "data:image/png">>)
ImageInputs == {NoImage, ImageString(<<>>), PngPrefixed, RawBase64, PngMarkerLater}

\* Pieces the regular expression data:image\/\w+ matches.
DataImageMarkers ==
  {"data:image/png", "data:image/gif", "data:image/webp", "data:image/jpeg"}

\* if (imageBase64): undefined and "" take the text-only branch.
ImageTruthyWhenGiven(img) == img.given
ImageTruthy(img) == img.given /\ img.chars # <<>>

\* imageBase64.replace(/^data:image\/\w+;base64,/, "")
StripDataUri(chars) ==
  IF Len(chars) >= 2 /\ chars[1] \in DataImageMarkers /\ chars[2] = ";base64,"
  THEN SubSeq(chars, 3, Len(chars))
  ELSE chars

\* imageBase64.includes(marker)
Includes(chars, marker) == \E k \in DOMAIN chars : chars[k] = marker

\* The mimeType chain of postTweet.
MimeType(chars) ==
  IF Includes(chars, "data:image/png") THEN "image/png"
  ELSE IF Includes(chars, "data:image/gif") THEN "image/gif"
  ELSE IF Includes(chars, "data:image/webp") THEN "image/webp"
  ELSE "image/jpeg"

\* Buffer.from(text, "base64"): the bytes each piece decodes to.
Base64Decode(chars) == [k \in DOMAIN chars |-> [decoded |-> chars[k]]]

-----------------------------------------------------------------------------
(* Optional parameters: maxResults, woeid (numbers) and exclude (a list). *)

NoNumber == [given |-> FALSE, value |-> 0]
Number(n) == [given |-> TRUE, value |-> n]
NoList == [given |-> FALSE, list |-> <<>>]
List(l) == [given |-> TRUE, list |-> l]

\* z.number().optional().default(10) of the three maxResults parameters.
DefaultMaxResults == 10
\* max_results: 50 of getUserTweets.
TimelineMaxResults == 50
\* z.number().optional().default(1) of woeid.
DefaultWoeid == 1

\* Tools whose schema declares maxResults.
MaxResultsOps == {"get_tweets_by_userid", "get_user_mentions", "search_tweets"}

MaxResultsInputs == {NoNumber, Number(0), Number(5)}
ExcludeInputs == {NoList, List(<<>>), List(<<"replies">>)}
WoeidInputs == {NoNumber, Number(2)}

\* What the handler receives for an optional number with a schema default.
ParsedNumber(raw, default) == IF raw.given THEN raw.value ELSE default

\* n || d on numbers: 0 is falsy.
OrDefault(n, d) == IF n = 0 THEN d ELSE n

\* exclude ?? [...]: the default list of getUserTweets in either variant.
DefaultExcludeRetweetsOnly(variant) == <<"retweets">>
DefaultExclude(variant) ==
  IF variant = "percall" THEN <<"retweets", "replies">> ELSE <<"retweets">>

-----------------------------------------------------------------------------
(* Remote calls.  A call names the verb of the client library, the handle  *)
(* it is made on, and the arguments the operations compute.                *)

NoUpload == [bytes |-> <<>>, mime |-> "none"]

\* The user id every targetUserId / userId / tweetId parameter carries.
TargetId == "u9"
\* Ids v2.me() may answer with.
MeIds == {"u1"}
\* Media ids v2.uploadMedia may answer with.
MediaIds == {"m1"}

RemoteCall(verb, handle, subject, upload, media) ==
  [verb |-> verb, handle |-> handle, subject |-> subject,
   upload |-> upload, media |-> media]

\* The verb of the first remote call of each service method.
FirstVerb(op, img) ==
  CASE op = "get_tweets_by_userid" -> "v2.userTimeline"
    [] op = "get_tweet_by_id" -> "v2.singleTweet"
    [] op = "get_user_mentions" -> "v2.userMentionTimeline"
    [] op = "quote_tweet" -> "v2.quote"
    [] op = "reply_to_tweet" -> "v2.reply"
    [] op = "post_tweet" ->
         IF ImageTruthy(img) THEN "v2.uploadMedia" ELSE "v2.tweet"
    [] op \in IdentityOps -> "v2.me"
    [] op = "get_user_by_username" -> "v2.userByUsername"
    [] op = "search_tweets" -> "v2.search"
    [] op = "get_trending_topics" -> "v1.trendsAvailable"
    [] op = "create_list" -> "v2.createList"
    [] op = "add_list_member" -> "v2.addListMember"
    [] op = "remove_list_member" -> "v2.removeListMember"

\* The verb of the call that follows v2.me() or v2.uploadMedia().
SecondVerb(op) ==
  CASE op = "like_tweet" -> "v2.like"
    [] op = "follow_user" -> "v2.follow"
    [] op = "unfollow_user" -> "v2.unfollow"
    [] op = "get_owned_lists" -> "v2.listsOwned"
    [] op = "post_tweet" -> "v2.tweet"

\* The first call a service method issues after getClient returned handle.
FirstCall(op, handle, img) ==
  IF op = "post_tweet" /\ ImageTruthy(img)
  THEN RemoteCall("v2.uploadMedia", handle, Undef,
                  [bytes |-> Base64Decode(StripDataUri(img.chars)),
                   mime |-> MimeType(img.chars)], <<>>)
  ELSE RemoteCall(FirstVerb(op, img), handle, Undef, NoUpload, <<>>)

\* like(me.data.id, tweetId), follow(me.data.id, targetUserId), ...
IdentityCallWithTarget(op, handle, meId) ==
  RemoteCall(SecondVerb(op), handle, TargetId, NoUpload, <<>>)
IdentityCall(op, handle, meId) ==
  RemoteCall(SecondVerb(op), handle, meId, NoUpload, <<>>)

\* client.v2.tweet({ text, media: { media_ids: [mediaId] } })
MediaTweetCallTextOnly(handle, mediaId) ==
  RemoteCall("v2.tweet", handle, Undef, NoUpload, <<>>)
MediaTweetCall(handle, mediaId) ==
  RemoteCall("v2.tweet", handle, Undef, NoUpload, <<mediaId>>)

\* The options object a service method passes with its first remote call.
NoOptions == [max_results |-> NoNumber, exclude |-> NoList, woeid |-> NoNumber]

CallOptionsWithWoeid(variant, op, maxResults, exclude, woeid) ==
  IF op = "get_trending_topics"
  THEN [NoOptions EXCEPT !.woeid = Number(ParsedNumber(woeid, DefaultWoeid))]
  ELSE NoOptions
CallOptions(variant, op, maxResults, exclude, woeid) ==
  CASE op = "get_tweets_by_userid" ->
         [NoOptions EXCEPT
            !.max_results = Number(TimelineMaxResults),
            !.exclude = IF exclude.given THEN exclude
                        ELSE List(DefaultExclude(variant))]
    [] op = "get_user_mentions" ->
         [NoOptions EXCEPT
            !.max_results =
              Number(OrDefault(ParsedNumber(maxResults, DefaultMaxResults), 10))]
    [] op = "search_tweets" ->
         [NoOptions EXCEPT
            !.max_results = Number(ParsedNumber(maxResults, DefaultMaxResults))]
    [] OTHER -> NoOptions

\* A remote call as it is issued: the call with its options.
Issue(call, opts) ==
  [verb |-> call.verb, handle |-> call.handle, subject |-> call.subject,
   upload |-> call.upload, media |-> call.media, opts |-> opts]

\* What a remote verb may resolve with, as the value the operation reads
\* from the answer (me.data.id, the media id, result.data, result.data.data).
\* A search or a list lookup with no match answers without a data list.
RemoteValues(verb) ==
  CASE verb = "v2.me" -> {ObjectVal(u) : u \in MeIds}
    [] verb = "v2.uploadMedia" -> {ObjectVal(m) : m \in MediaIds}
    [] verb \in {"v2.search", "v2.listsOwned"} -> {ObjectVal("data"), Undefined}
    [] OTHER -> {ObjectVal("data")}

AllRemoteValues ==
  {ObjectVal(n) : n \in {"data"} \cup MeIds \cup MediaIds} \cup {Undefined}

\* The value a service method returns once its last remote call resolved.
ReturnValue(op, val) ==
  CASE op = "get_tweets_by_userid" ->
         JSONstringify(ObjectVal("result+message"))
    [] op = "like_tweet" -> ObjectVal("liked")
    [] OTHER -> val

-----------------------------------------------------------------------------
(* State. *)

VARIABLES
  mode,     \* which variant is deployed
  env,      \* the secrets present in process.env
  client,   \* TwitterService.client of the singleton
  handles,  \* the TwitterApi objects constructed so far: handle h was built
            \* from credential handles[h]
  started,  \* tool calls delivered so far
  inv       \* the invocation in each slot

vars == <<mode, env, client, handles, started, inv>>

NoConfig == [given |-> FALSE, accessToken |-> Undef, refreshToken |-> Undef]
ConfigWithRefresh(token, refresh) ==
  [given |-> TRUE, accessToken |-> token, refreshToken |-> refresh]
Config(token) == ConfigWithRefresh(token, Undef)
ConfigInputs == {NoConfig} \cup {Config(t) : t \in TokenValues}

\* Refresh tokens a caller may send along.
RefreshTokens == {"refreshA"}

NoResponse == [kind |-> "none"]
Rejected == [kind |-> "rejected"]
Thrown(error) == [kind |-> "thrown", error |-> error]

\* return { content: [{ type: "text", text: JSON.stringify(value, null, 2) }] }
\* result is the object the handler returns, field by field.
EnvelopeFlaggingErrors(value) ==
  [kind |-> "envelope", payload |-> value, text |-> JSONstringify(value),
   result |->
     IF value.kind = "error"
     THEN [content |-> <<[type |-> "text", text |-> JSONstringify(value)]>>,
           isError |-> TRUE]
     ELSE [content |-> <<[type |-> "text", text |-> JSONstringify(value)]>>]]
Envelope(value) ==
  [kind |-> "envelope", payload |-> value, text |-> JSONstringify(value),
   result |-> [content |-> <<[type |-> "text", text |-> JSONstringify(value)]>>]]

Idle ==
  [pc |-> "idle", op |-> "none", omitted |-> FALSE, config |-> NoConfig,
   image |-> NoImage, maxResults |-> NoNumber, exclude |-> NoList,
   woeid |-> NoNumber, client |-> NoClient, made |-> NoClient, log |-> <<>>,
   me |-> Undef, mediaId |-> Undef, failure |-> Undefined,
   stdout |-> <<>>, response |-> NoResponse]

Init ==
  /\ mode \in Modes
  /\ env \in SUBSET Secrets
  /\ (mode = "percall" => env = {})
  /\ client = NoClient
  /\ handles = <<>>
  /\ started = 0
  /\ inv = [s \in Slots |-> Idle]

-----------------------------------------------------------------------------
(* The Client Factory: TwitterService.getClient of either variant.  The    *)
(* result names what was thrown or returned and the new value of the       *)
(* singleton's client field and of the set of constructed handles.         *)

GetClientThrew(error) ==
  [threw |-> TRUE, error |-> error, ret |-> NoClient, made |-> NoClient,
   client |-> client, handles |-> handles]

\* this.client = new TwitterApi(credential); return this.client
GetClientConstructed(credential) ==
  [threw |-> FALSE, error |-> Undefined, ret |-> Len(handles) + 1,
   made |-> Len(handles) + 1, client |-> Len(handles) + 1,
   handles |-> Append(handles, credential)]

GetClientCached ==
  [threw |-> FALSE, error |-> Undefined, ret |-> client, made |-> NoClient,
   client |-> client, handles |-> handles]

\* A console.log line: its text and the tokens of the object printed with it.
LogLine(text, accessToken, refreshToken) ==
  [text |-> text, accessToken |-> accessToken, refreshToken |-> refreshToken]

\* What getClient writes with console.log, which prints on the process's
\* standard output: three lines in part_001, none in services.ts.
ConsoleLog(variant, config) ==
  IF variant # "percall" THEN <<>>
  ELSE <<LogLine("calling getClient", config.accessToken, config.refreshToken)>>
       \o (IF ~Truthy(config.accessToken) THEN <<>>
           ELSE <<LogLine("Initializing Twitter client with credentials:",
                          config.accessToken, config.refreshToken),
                  LogLine("Twitter client initialized successfully",
                          Undef, Undef)>>)

\* part_001: getClient(config)
getClientPerCallUnchecked(config) == GetClientConstructed(config.accessToken)
getClientPerCallCaching(config) ==
  IF ~Truthy(config.accessToken) THEN GetClientThrew(AccessTokenRequired)
  ELSE IF client # NoClient THEN GetClientCached
  ELSE GetClientConstructed(config.accessToken)
getClientPerCallRefreshing(config) ==
  IF Truthy(config.refreshToken) THEN GetClientConstructed(config.refreshToken)
  ELSE IF ~Truthy(config.accessToken) THEN GetClientThrew(AccessTokenRequired)
  ELSE GetClientConstructed(config.accessToken)
getClientPerCall(config) ==
  IF ~Truthy(config.accessToken) THEN GetClientThrew(AccessTokenRequired)
  ELSE GetClientConstructed(config.accessToken)

\* services.ts: getClient()
getClientStaticUncached ==
  IF env # Secrets THEN GetClientThrew(CredentialsNotConfigured)
  ELSE GetClientConstructed("env")
getClientStaticUnchecked ==
  IF client = NoClient THEN GetClientConstructed("env") ELSE GetClientCached
getClientStaticRechecking ==
  IF env # Secrets THEN GetClientThrew(CredentialsNotConfigured)
  ELSE IF client = NoClient THEN GetClientConstructed("env")
  ELSE GetClientCached
getClientStatic ==
  IF client = NoClient
  THEN IF env # Secrets THEN GetClientThrew(CredentialsNotConfigured)
       ELSE GetClientConstructed("env")
  ELSE GetClientCached

getClient(config) ==
  IF mode = "percall" THEN getClientPerCall(config) ELSE getClientStatic

-----------------------------------------------------------------------------
(* The tool handlers. *)

\* The schema check the MCP server runs before a handler: a missing required
\* parameter is rejected, and so is an absent config where the per-call
\* schema does not mark config optional.
ValidatesParamsUnchecked(op, cfg, omit) ==
  mode = "percall" /\ op \in ConfigRequired => cfg.given
Validates(op, cfg, omit) ==
  /\ ~omit
  /\ (mode = "percall" /\ op \in ConfigRequired => cfg.given)

\* The arguments the handler receives: fields the schema does not declare
\* (config and imageBase64 in the static variant) are dropped.
ParsedConfig(cfg) == IF mode = "percall" THEN cfg ELSE NoConfig
ParsedImage(op, img) ==
  IF mode = "percall" /\ op = "post_tweet" THEN img ELSE NoImage

\* config || {}
EffectiveConfig(cfg) == IF cfg.given THEN cfg ELSE Config(Undef)

\* catch (error) { return error; }
CatchRethrow(error) == [threw |-> TRUE, value |-> error]
CatchStringified(error) == [threw |-> FALSE, value |-> JSONstringify(error)]
Catch(error) == [threw |-> FALSE, value |-> error]

\* The handler's response once the service method settled.
Respond(settled) ==
  IF settled.threw THEN Thrown(settled.value) ELSE Envelope(settled.value)

\* The tool calls the transport may deliver: a tool name and its arguments.
\* omit says that a required parameter is missing.  imageBase64 is an
\* argument of post_tweet only, maxResults of the three tools that declare
\* it, exclude of get_tweets_by_userid and woeid of get_trending_topics.
\* One optional parameter is varied at a time, and a call that omits a
\* required parameter carries no config or a complete one.
Requests ==
  {r \in [op : Ops, config : ConfigInputs, image : ImageInputs, omit : BOOLEAN,
          maxResults : MaxResultsInputs, exclude : ExcludeInputs,
          woeid : WoeidInputs] :
     /\ (r.op # "post_tweet" => r.image = NoImage)
     /\ (r.op \notin MaxResultsOps => r.maxResults = NoNumber)
     /\ (r.op # "get_tweets_by_userid" => r.exclude = NoList)
     /\ (r.op # "get_trending_topics" => r.woeid = NoNumber)
     /\ (r.maxResults.given => ~r.exclude.given)
     /\ (r.omit => /\ r.op \in HasRequiredParam
                   /\ r.image = NoImage /\ r.maxResults = NoNumber
                   /\ r.exclude = NoList /\ r.woeid = NoNumber
                   /\ (r.config.given => Truthy(r.config.accessToken)))}

\* A tool call arrives: validation, then the handler and the service method
\* run up to their first await.
Start(s, req) ==
  /\ inv[s].pc = "idle"
  /\ started < MaxCalls
  /\ started' = started + 1
  /\ UNCHANGED <<mode, env>>
  /\ LET base == [Idle EXCEPT !.op = req.op, !.omitted = req.omit,
                              !.config = ParsedConfig(req.config),
                              !.image = ParsedImage(req.op, req.image),
                              !.maxResults = req.maxResults,
                              !.exclude = req.exclude,
                              !.woeid = req.woeid]
     IN IF ~Validates(req.op, req.config, req.omit)
        THEN /\ inv' = [inv EXCEPT ![s] =
                          [base EXCEPT !.pc = "done", !.response = Rejected]]
             /\ UNCHANGED <<client, handles>>
        ELSE LET got == getClient(EffectiveConfig(base.config))
             IN /\ client' = got.client
                /\ handles' = got.handles
                /\ inv' = [inv EXCEPT ![s] =
                     IF got.threw
                     THEN [base EXCEPT !.pc = "done",
                                       !.stdout =
                                         ConsoleLog(mode, EffectiveConfig(base.config)),
                                       !.response = Respond(Catch(got.error))]
                     ELSE [base EXCEPT
                             !.pc = "await1",
                             !.stdout = ConsoleLog(mode, EffectiveConfig(base.config)),
                             !.client = got.ret,
                             !.made = got.made,
                             !.log =
                               <<Issue(FirstCall(req.op, got.ret, base.image),
                                       CallOptions(mode, req.op, req.maxResults,
                                                   req.exclude, req.woeid))>>]]

\* The awaited remote call resolves with val and the operation resumes.
RemoteResolveSharedClient(s, val) ==
  /\ inv[s].pc \in {"await1", "await2"}
  /\ val \in RemoteValues(inv[s].log[Len(inv[s].log)].verb)
  /\ UNCHANGED <<mode, env, client, handles, started>>
  /\ LET c == inv[s]
     IN inv' = [inv EXCEPT ![s] =
          IF c.pc = "await1" /\ c.op \in IdentityOps
          THEN [c EXCEPT !.pc = "await2", !.me = val.name,
                         !.log = Append(@, Issue(IdentityCall(c.op, client, val.name),
                                                 NoOptions))]
          ELSE IF c.pc = "await1" /\ c.op = "post_tweet" /\ ImageTruthy(c.image)
          THEN [c EXCEPT !.pc = "await2", !.mediaId = val.name,
                         !.log = Append(@, Issue(MediaTweetCall(client, val.name),
                                                 NoOptions))]
          ELSE [c EXCEPT !.pc = "done",
                         !.response = Envelope(ReturnValue(c.op, val))]]
RemoteResolve(s, val) ==
  /\ inv[s].pc \in {"await1", "await2"}
  /\ val \in RemoteValues(inv[s].log[Len(inv[s].log)].verb)
  /\ UNCHANGED <<mode, env, client, handles, started>>
  /\ LET c == inv[s]
     IN inv' = [inv EXCEPT ![s] =
          IF c.pc = "await1" /\ c.op \in IdentityOps
          THEN [c EXCEPT !.pc = "await2", !.me = val.name,
                         !.log = Append(@, Issue(IdentityCall(c.op, c.client, val.name),
                                                 NoOptions))]
          ELSE IF c.pc = "await1" /\ c.op = "post_tweet" /\ ImageTruthy(c.image)
          THEN [c EXCEPT !.pc = "await2", !.mediaId = val.name,
                         !.log = Append(@, Issue(MediaTweetCall(c.client, val.name),
                                                 NoOptions))]
          ELSE [c EXCEPT !.pc = "done",
                         !.response = Envelope(ReturnValue(c.op, val))]]

\* The awaited remote call rejects with an error object.
RemoteRejectSecondUncaught(s, error) ==
  /\ inv[s].pc \in {"await1", "await2"}
  /\ error \in RemoteErrors
  /\ UNCHANGED <<mode, env, client, handles, started>>
  /\ inv' = [inv EXCEPT ![s] =
       IF @.pc = "await2"
       THEN [@ EXCEPT !.pc = "lost", !.failure = error]
       ELSE [@ EXCEPT !.pc = "done", !.failure = error,
                      !.response = Respond(Catch(error))]]
RemoteRejectRetrying(s, error) ==
  /\ inv[s].pc \in {"await1", "await2"}
  /\ error \in RemoteErrors
  /\ UNCHANGED <<mode, env, client, handles, started>>
  /\ LET c == inv[s]
         last == c.log[Len(c.log)]
         tried == Cardinality({k \in DOMAIN c.log : c.log[k].verb = last.verb})
     IN inv' = [inv EXCEPT ![s] =
          IF tried = 1
          THEN [c EXCEPT !.log = Append(@, last)]
          ELSE [c EXCEPT !.pc = "done", !.failure = error,
                         !.response = Respond(Catch(error))]]
RemoteReject(s, error) ==
  /\ inv[s].pc \in {"await1", "await2"}
  /\ error \in RemoteErrors
  /\ UNCHANGED <<mode, env, client, handles, started>>
  /\ inv' = [inv EXCEPT ![s] =
       [@ EXCEPT !.pc = "done", !.failure = error,
                 !.response = Respond(Catch(error))]]

\* The transport has sent the response; the slot is free for the next call.
Deliver(s) ==
  /\ inv[s].pc = "done"
  /\ inv' = [inv EXCEPT ![s] = Idle]
  /\ UNCHANGED <<mode, env, client, handles, started>>

Next ==
  \/ \E s \in Slots, req \in Requests : Start(s, req)
  \/ \E s \in Slots, val \in AllRemoteValues : RemoteResolve(s, val)
  \/ \E s \in Slots, error \in RemoteErrors : RemoteReject(s, error)
  \/ \E s \in Slots : Deliver(s)

Spec == Init /\ [][Next]_vars

\* Every remote call an invocation awaits eventually returns or fails: the
\* promise of the awaited call settles, and the resumed method runs to its
\* next await or to its return.
RemoteSettles(s) ==
  \/ \E val \in AllRemoteValues : RemoteResolve(s, val)
  \/ \E error \in RemoteErrors : RemoteReject(s, error)

LiveSpec == Spec /\ \A s \in Slots : WF_vars(RemoteSettles(s))

\* The static variant in a process whose environment changes while the
\* server runs: process.env is read anew by every getClient that finds no
\* cached client.
EnvInputs == {Secrets, Secrets \ {"TWITTER_ACCESS_TOKEN_SECRET"}, {}}

InitStatic == Init /\ mode = "static" /\ env \in EnvInputs

StaticRequests ==
  {[op |-> op, config |-> NoConfig, image |-> NoImage, omit |-> FALSE,
    maxResults |-> NoNumber, exclude |-> NoList, woeid |-> NoNumber] :
     op \in Ops}

\* A secret is set or removed in process.env.
EnvChange(e) ==
  /\ e \in EnvInputs
  /\ e # env
  /\ env' = e
  /\ UNCHANGED <<mode, client, handles, started, inv>>

NextEnv ==
  \/ \E s \in Slots, req \in StaticRequests : Start(s, req)
  \/ \E s \in Slots, val \in AllRemoteValues : RemoteResolve(s, val)
  \/ \E s \in Slots, error \in RemoteErrors : RemoteReject(s, error)
  \/ \E s \in Slots : Deliver(s)
  \/ \E e \in EnvInputs : EnvChange(e)

SpecEnv == InitStatic /\ [][NextEnv]_vars

\* The per-call variant alone.
InitPerCall == Init /\ mode = "percall"

\* The per-call variant with two callers: overlapped calls that carry
\* different access tokens.
OverlapTokens == {"tokA", "tokB"}

OverlapRequests ==
  {r \in [op : Ops, config : {Config(t) : t \in OverlapTokens},
          image : {NoImage, RawBase64}, omit : {FALSE},
          maxResults : {NoNumber}, exclude : {NoList}, woeid : {NoNumber}] :
     r.op # "post_tweet" => r.image = NoImage}

NextOverlap ==
  \/ \E s \in Slots, req \in OverlapRequests : Start(s, req)
  \/ \E s \in Slots, val \in AllRemoteValues : RemoteResolve(s, val)
  \/ \E s \in Slots, error \in RemoteErrors : RemoteReject(s, error)
  \/ \E s \in Slots : Deliver(s)

SpecOverlap == InitPerCall /\ [][NextOverlap]_vars

\* The per-call variant with calls that carry a refreshToken: every tool,
\* with or without an accessToken, with or without a refreshToken.
RefreshRequests ==
  {[op |-> op, config |-> cfg, image |-> NoImage, omit |-> FALSE,
    maxResults |-> NoNumber, exclude |-> NoList, woeid |-> NoNumber] :
     op \in Ops,
     cfg \in {ConfigWithRefresh(t, r) :
                t \in Tokens \cup {Undef}, r \in RefreshTokens \cup {Undef}}}

NextRefresh ==
  \/ \E s \in Slots, req \in RefreshRequests : Start(s, req)
  \/ \E s \in Slots, val \in AllRemoteValues : RemoteResolve(s, val)
  \/ \E s \in Slots, error \in RemoteErrors : RemoteReject(s, error)
  \/ \E s \in Slots : Deliver(s)

SpecRefresh == InitPerCall /\ [][NextRefresh]_vars

-----------------------------------------------------------------------------
(* Properties. *)

\* The accessToken the service method sees is absent or empty.
TokenMissing(c) == ~Truthy(EffectiveConfig(c.config).accessToken)

\* The invocation in slot s was accepted by validation and has ended.
Ended(s) == inv[s].pc = "done" /\ inv[s].response # Rejected

\* The invocation obtained a client handle.
Resolved(s) == inv[s].pc # "idle" /\ inv[s].client # NoClient

\* C1: in per-call mode an invocation whose accessToken is absent or empty
\* constructs no client handle and issues no remote call, whatever the
\* operation and its other parameters; no handle is ever built from an
\* absent or empty token.
C1_NoClientWithoutToken ==
  mode = "percall" =>
    /\ \A s \in Slots :
         inv[s].pc # "idle" /\ TokenMissing(inv[s]) =>
           /\ inv[s].made = NoClient
           /\ inv[s].client = NoClient
           /\ inv[s].log = <<>>
    /\ \A h \in DOMAIN handles : Truthy(handles[h])

C1_Witness ==
  \E s \in Slots :
    /\ mode = "percall" /\ Ended(s)
    /\ inv[s].config = Config("")
    /\ inv[s].log = <<>> /\ handles = <<>> /\ started = MaxCalls

C3_StaticHandleCachedOnce ==
  /\ [](mode = "static" =>
          /\ Len(handles) <= 1
          /\ client \in {NoClient, 1}
          /\ \A s \in Slots :
               Resolved(s) =>
                 /\ inv[s].client = client
                 /\ \A k \in DOMAIN inv[s].log : inv[s].log[k].handle = client)
  /\ [][mode = "static" /\ client # NoClient => client' = client]_vars

C3_Witness ==
  /\ mode = "static" /\ Len(handles) = 1
  /\ \A s \in Slots : Resolved(s) /\ inv[s].client = client
  /\ \E s \in Slots : inv[s].made = NoClient

\* C4: in per-call mode every invocation that resolves constructs its own
\* new handle: overlapping invocations hold pairwise distinct handles, also
\* with equal tokens, and each issues its remote calls on the handle it
\* constructed itself.
C4_FreshHandlePerCall ==
  mode = "percall" =>
    /\ \A s \in Slots :
         Resolved(s) =>
           /\ inv[s].made = inv[s].client
           /\ inv[s].client \in DOMAIN handles
           /\ handles[inv[s].client] = inv[s].config.accessToken
           /\ \A k \in DOMAIN inv[s].log : inv[s].log[k].handle = inv[s].made
    /\ \A s, t \in Slots :
         s # t /\ Resolved(s) /\ Resolved(t) => inv[s].client # inv[t].client

C4_Witness ==
  /\ mode = "percall"
  /\ \A s \in Slots : Resolved(s)
  /\ \A s, t \in Slots : inv[s].config.accessToken = inv[t].config.accessToken
  /\ Len(handles) = Cardinality(Slots)

\* C5 as stated: in per-call mode, whenever no invocation is in progress the
\* service's stored client is unset.
C5_ClientDiscardedAfterCall ==
  mode = "percall" /\ (\A s \in Slots : inv[s].pc \in {"idle", "done"}) =>
    client = NoClient

\* C6: when a remote call of an invocation fails with an error object, the
\* invocation ends with a normal response envelope whose payload is that
\* error object, and nothing is thrown.
C6_RemoteErrorReturned ==
  \A s \in Slots :
    inv[s].failure # Undefined =>
      /\ inv[s].pc = "done"
      /\ inv[s].response.kind = "envelope"
      /\ inv[s].response.payload = inv[s].failure

C6_Witness ==
  \E s \in Slots :
    /\ inv[s].failure \in RemoteErrors
    /\ inv[s].op = "follow_user" /\ Len(inv[s].log) = 2
    /\ inv[s].response.kind = "envelope"

\* C7: like_tweet, follow_user, unfollow_user and get_owned_lists issue one
\* v2.me() lookup first, issue the primary action only after the lookup has
\* returned, and pass it the id that lookup returned.
C7_IdentityLookupFirst ==
  \A s \in Slots :
    inv[s].op \in IdentityOps /\ Resolved(s) =>
      LET log == inv[s].log
      IN /\ Len(log) \in {1, 2}
         /\ log[1].verb = "v2.me"
         /\ (inv[s].pc = "await1" => Len(log) = 1 /\ inv[s].me = Undef)
         /\ (Len(log) = 2 =>
               /\ inv[s].me \in MeIds
               /\ log[2].verb =
                    (CASE inv[s].op = "like_tweet" -> "v2.like"
                       [] inv[s].op = "follow_user" -> "v2.follow"
                       [] inv[s].op = "unfollow_user" -> "v2.unfollow"
                       [] inv[s].op = "get_owned_lists" -> "v2.listsOwned")
               /\ log[2].subject = inv[s].me)

C7_Witness ==
  \E s \in Slots :
    /\ inv[s].op = "unfollow_user" /\ inv[s].pc = "done"
    /\ Len(inv[s].log) = 2 /\ inv[s].log[2].subject \in MeIds
    /\ inv[s].failure = Undefined

C9_TextParsesAsJSON ==
  \A s \in Slots :
    Ended(s) /\ Resolved(s) /\ inv[s].failure = Undefined =>
      /\ inv[s].response.kind = "envelope"
      /\ ParsesAsJSON(inv[s].response.text)

\* C10 as stated: when the value an operation returns is already a string,
\* the envelope's text equals that string unchanged.
C10_StringPassedThrough ==
  \A s \in Slots :
    Ended(s) /\ inv[s].response.kind = "envelope"
             /\ IsString(inv[s].response.payload) =>
      inv[s].response.text = inv[s].response.payload

-----------------------------------------------------------------------------
(* Properties of the parameters, of validation and of the envelope. *)

\* The result count the caller asked for: maxResults, or 10 when omitted.
RequestedCount(c) ==
  Number(IF c.maxResults.given THEN c.maxResults.value ELSE 10)

\* C11 as stated: get_tweets_by_userid issues its timeline call with a
\* result count equal to the caller's maxResults, or 10 when maxResults is
\* omitted.
C11_TimelineCountFollowsMaxResults ==
  \A s \in Slots :
    inv[s].op = "get_tweets_by_userid" /\ Resolved(s) =>
      inv[s].log[1].opts.max_results = RequestedCount(inv[s])

\* C12: get_tweets_by_userid passes a supplied exclude list unchanged, an
\* empty one included; when exclude is omitted the call excludes
\* [retweets] in the static variant and [retweets, replies] in the per-call
\* variant.
C12_ExcludePassedOrDefaulted ==
  \A s \in Slots :
    inv[s].op = "get_tweets_by_userid" /\ Resolved(s) =>
      /\ inv[s].log[1].verb = "v2.userTimeline"
      /\ inv[s].log[1].opts.exclude.given
      /\ inv[s].log[1].opts.exclude.list =
           (IF inv[s].exclude.given THEN inv[s].exclude.list
            ELSE IF mode = "static" THEN <<"retweets">>
            ELSE <<"retweets", "replies">>)

C12_Witness ==
  /\ mode = "percall"
  /\ \E s \in Slots :
       /\ inv[s].op = "get_tweets_by_userid" /\ Resolved(s)
       /\ ~inv[s].exclude.given
       /\ inv[s].log[1].opts.exclude.list = <<"retweets", "replies">>
  /\ \E s \in Slots :
       /\ inv[s].op = "get_tweets_by_userid" /\ Resolved(s)
       /\ inv[s].exclude = List(<<>>)
       /\ inv[s].log[1].opts.exclude.list = <<>>

\* C13: a request that omits a required parameter is rejected by validation
\* before the operation body runs: no client is resolved or constructed for
\* it and it issues no remote call.
C13_OmissionRejectedBeforeBody ==
  \A s \in Slots :
    inv[s].omitted =>
      /\ inv[s].pc = "done"
      /\ inv[s].response = Rejected
      /\ inv[s].client = NoClient
      /\ inv[s].made = NoClient
      /\ inv[s].log = <<>>

C13_Witness ==
  \E s \in Slots :
    /\ mode = "percall" /\ inv[s].omitted
    /\ inv[s].op = "reply_to_tweet" /\ inv[s].config = Config("tokA")
    /\ inv[s].response = Rejected
    /\ handles = <<>> /\ started = MaxCalls

\* C14 as stated: in per-call mode a call that carries no config at all ends
\* with the same kind of outcome (rejected, raised, returned as payload)
\* whichever operation is called.
C14_NoConfigFailsUniformly ==
  \A s, t \in Slots :
    /\ mode = "percall"
    /\ inv[s].pc = "done" /\ inv[t].pc = "done"
    /\ ~inv[s].omitted /\ ~inv[t].omitted
    /\ ~inv[s].config.given /\ ~inv[t].config.given
    => inv[s].response.kind = inv[t].response.kind

\* C15: every response a handler returns is an object with the single field
\* content, holding exactly one element, of type text; it has no error
\* indicator, whether the operation succeeded or failed.
C15_EnvelopeShape ==
  \A s \in Slots :
    /\ (Ended(s) => inv[s].response.kind = "envelope")
    /\ (inv[s].response.kind = "envelope" =>
          LET result == inv[s].response.result
          IN /\ DOMAIN result = {"content"}
             /\ Len(result.content) = 1
             /\ DOMAIN result.content[1] = {"type", "text"}
             /\ result.content[1].type = "text"
             /\ result.content[1].text = inv[s].response.text)

C15_Witness ==
  \E s, t \in Slots :
    /\ Ended(s) /\ inv[s].failure \in RemoteErrors
    /\ Ended(t) /\ Resolved(t) /\ inv[t].failure = Undefined
    /\ inv[s].response.kind = "envelope" /\ inv[t].response.kind = "envelope"
    /\ DOMAIN inv[s].response.result = DOMAIN inv[t].response.result

\* C19 as stated: get_user_mentions and search_tweets send a result count
\* equal to the caller's maxResults for every number supplied, 0 included,
\* and 10 when maxResults is omitted.
C19_CountFollowsMaxResults ==
  \A s \in Slots :
    inv[s].op \in {"get_user_mentions", "search_tweets"} /\ Resolved(s) =>
      inv[s].log[1].opts.max_results = RequestedCount(inv[s])

\* C20: in static mode a call that arrives while one of the four secrets is
\* absent and no handle is cached ends at once with the missing-credential
\* error as its payload; it constructs no handle and issues no remote call.
C20_StaticMissingSecretFails ==
  [][\A s \in Slots :
       /\ mode = "static" /\ env # Secrets /\ client = NoClient
       /\ inv[s].pc = "idle" /\ inv'[s].pc # "idle" /\ ~inv'[s].omitted
       => /\ inv'[s].pc = "done"
          /\ inv'[s].response.kind = "envelope"
          /\ inv'[s].response.payload = CredentialsNotConfigured
          /\ inv'[s].log = <<>>
          /\ inv'[s].made = NoClient /\ inv'[s].client = NoClient
          /\ handles' = handles /\ client' = NoClient]_vars

C20_Witness ==
  \E s \in Slots :
    /\ mode = "static" /\ env = Secrets \ {"TWITTER_ACCESS_TOKEN_SECRET"}
    /\ Ended(s) /\ inv[s].op = "search_tweets"
    /\ inv[s].response.payload = CredentialsNotConfigured
    /\ handles = <<>> /\ client = NoClient

\* A remote call without the handle it is made on.
CallShape(call) == [verb |-> call.verb, subject |-> call.subject,
                    upload |-> call.upload, media |-> call.media,
                    opts |-> call.opts]

RefreshVerbs == {"refreshOAuth2Token"}

\* C18: in per-call mode refreshToken changes nothing: the handle is built
\* from accessToken whatever refreshToken is (and none is built from a
\* refreshToken alone), two invocations of the same tool that differ only
\* in refreshToken issue the same remote calls, and no invocation issues a
\* token-refresh request, a remote failure ending the invocation at once.
C18_RefreshTokenUnused ==
  /\ \A s \in Slots :
       /\ (Resolved(s) =>
             /\ inv[s].made \in DOMAIN handles
             /\ handles[inv[s].made] = inv[s].config.accessToken)
       /\ (inv[s].pc # "idle" /\ TokenMissing(inv[s]) =>
             inv[s].made = NoClient /\ inv[s].log = <<>>)
       /\ \A k \in DOMAIN inv[s].log : inv[s].log[k].verb \notin RefreshVerbs
       /\ (inv[s].failure # Undefined => inv[s].pc = "done")
  /\ \A s, t \in Slots :
       /\ inv[s].op = inv[t].op
       /\ inv[s].config.accessToken = inv[t].config.accessToken
       /\ inv[s].config.given /\ inv[t].config.given
       => \A k \in DOMAIN inv[s].log \cap DOMAIN inv[t].log :
            (\A j \in 1..k : inv[s].log[j].verb = inv[t].log[j].verb) =>
              \/ CallShape(inv[s].log[k]) = CallShape(inv[t].log[k])
              \/ inv[s].me # inv[t].me \/ inv[s].mediaId # inv[t].mediaId

C18_Witness ==
  \E s, t \in Slots :
    /\ inv[s].op = "like_tweet" /\ inv[t].op = "like_tweet"
    /\ inv[s].config = ConfigWithRefresh("tokA", Undef)
    /\ inv[t].config = ConfigWithRefresh("tokA", "refreshA")
    /\ inv[s].failure \in RemoteErrors /\ Len(inv[s].log) = 2
    /\ inv[t].pc = "await2"
    /\ CallShape(inv[s].log[2]) = CallShape(inv[t].log[2])
    /\ handles = <<"tokA", "tokA">>

\* The invocation in slot s waits for a remote call.
Awaiting(s) == inv[s].pc \in {"await1", "await2"}

\* The invocation in slot s has its response envelope.
Answered(s) == inv[s].pc = "done" /\ inv[s].response.kind = "envelope"

\* C16: an invocation accepted by validation is either awaiting a remote
\* call, with no response yet, or has its response envelope; while remote
\* calls return or fail, an awaiting invocation eventually has its envelope,
\* whichever step of a two-step operation fails; and a response, once
\* there, is never replaced: it stays until the transport has sent it.
C16_AcceptedCallAnswered ==
  /\ \A s \in Slots : Awaiting(s) ~> Answered(s)
  /\ [](\A s \in Slots :
          inv[s].pc # "idle" /\ inv[s].response # Rejected =>
            \/ Awaiting(s) /\ inv[s].response = NoResponse
            \/ Answered(s))
  /\ [][\A s \in Slots :
          inv[s].response # NoResponse =>
            inv'[s] = inv[s] \/ inv'[s] = Idle]_vars

C16_Witness ==
  \E s \in Slots :
    /\ Answered(s)
    /\ inv[s].op \in IdentityOps \cup {"post_tweet"}
    /\ Len(inv[s].log) = 2
    /\ inv[s].failure \in RemoteErrors

-----------------------------------------------------------------------------
(* The catalogue, retries and the number of remote calls.                  *)

\* The names a variant registers.
RegisteredNames(variant) ==
  {RegisteredTools(variant)[k] : k \in DOMAIN RegisteredTools(variant)}

\* No name is registered twice in a variant.
NamesDistinct(variant) ==
  \A j, k \in DOMAIN RegisteredTools(variant) :
    j # k => RegisteredTools(variant)[j] # RegisteredTools(variant)[k]

\* C21 as stated: the catalogue registers exactly seventeen operations with
\* pairwise distinct names, the same names in both variants.
C21_SeventeenOperations ==
  /\ Len(RegisteredTools(mode)) = 17 /\ NamesDistinct(mode)
  /\ \A v \in Modes : RegisteredNames(v) = RegisteredNames(mode)

\* C21 amended: the catalogue registers exactly sixteen operations with
\* pairwise distinct names, the same names in both variants; they are the
\* tools a call can name, and every invocation runs one of them.
C21_SixteenOperations ==
  /\ Len(RegisteredTools(mode)) = 16 /\ NamesDistinct(mode)
  /\ \A v \in Modes : RegisteredNames(v) = RegisteredNames(mode)
  /\ RegisteredNames(mode) = Ops
  /\ \A s \in Slots : inv[s].pc # "idle" => inv[s].op \in RegisteredNames(mode)

C21_Witness ==
  /\ mode = "percall"
  /\ \E s \in Slots :
       /\ inv[s].op = RegisteredTools(mode)[Len(RegisteredTools(mode))]
       /\ Ended(s) /\ Resolved(s) /\ inv[s].failure = Undefined

\* C22: no invocation retries: the remote calls of an invocation have
\* pairwise distinct verbs, an invocation whose remote call failed has
\* ended, and from then on it issues no further remote call.
C22_NoRetry ==
  /\ [](\A s \in Slots :
          /\ \A j, k \in DOMAIN inv[s].log :
               j # k => inv[s].log[j].verb # inv[s].log[k].verb
          /\ (inv[s].failure # Undefined => inv[s].pc = "done"))
  /\ [][\A s \in Slots :
          inv[s].failure # Undefined =>
            inv'[s] = inv[s] \/ inv'[s] = Idle]_vars

C22_Witness ==
  \E s \in Slots :
    /\ inv[s].op \in IdentityOps \cup {"post_tweet"}
    /\ inv[s].failure \in RemoteErrors
    /\ inv[s].pc = "done"
    /\ Len(inv[s].log) = 1
    /\ inv[s].log[1].verb \in {"v2.me", "v2.uploadMedia"}

\* The operations the claim names as needing the identity lookup.
LookupFirst == {"follow_user", "unfollow_user", "like_tweet", "get_owned_lists"}

\* The invocation in slot s posts with a non-empty image.
PostsImage(s) ==
  /\ inv[s].op = "post_tweet"
  /\ inv[s].image.given /\ inv[s].image.chars # <<>>

\* C23 as stated: an invocation issues at most two remote calls, two only
\* when the operation looks the caller up first, and every other operation,
\* post_tweet included, exactly one once its credential resolved.
C23_TwoCallsOnlyAfterLookup ==
  \A s \in Slots :
    /\ Len(inv[s].log) <= 2
    /\ (Len(inv[s].log) = 2 => inv[s].op \in LookupFirst)
    /\ (Resolved(s) /\ inv[s].op \notin LookupFirst => Len(inv[s].log) = 1)

\* C23 amended: an invocation issues at most two remote calls, two only
\* when the operation looks the caller up first or is a post_tweet with a
\* non-empty image (upload, then post); every other invocation issues
\* exactly one remote call once its credential resolved.
C23_TwoCallsAfterLookupOrUpload ==
  \A s \in Slots :
    /\ Len(inv[s].log) <= 2
    /\ (Len(inv[s].log) = 2 => inv[s].op \in LookupFirst \/ PostsImage(s))
    /\ (Resolved(s) /\ inv[s].op \notin LookupFirst /\ ~PostsImage(s) =>
          Len(inv[s].log) = 1)
    /\ (Resolved(s) => Len(inv[s].log) >= 1)

C23_Witness ==
  \E s, t \in Slots :
    /\ PostsImage(s) /\ Ended(s) /\ Len(inv[s].log) = 2
    /\ inv[s].failure = Undefined
    /\ inv[t].op = "post_tweet" /\ ~PostsImage(t) /\ Ended(t)
    /\ Len(inv[t].log) = 1

-----------------------------------------------------------------------------
(* The image of post_tweet.                                                *)

\* The value starts with the prefix data:image/<type>;base64, .
StartsWithPrefix(chars, type) ==
  /\ Len(chars) >= 2
  /\ chars[1] = type
  /\ chars[2] = ";base64,"

\* The MIME type the data-URI prefix alone determines.
MimeFromPrefix(chars) ==
  IF StartsWithPrefix(chars, "data:image/png") THEN "image/png"
  ELSE IF StartsWithPrefix(chars, "data:image/gif") THEN "image/gif"
  ELSE IF StartsWithPrefix(chars, "data:image/webp") THEN "image/webp"
  ELSE "image/jpeg"

\* C24: a post_tweet with an image uploads the decoding of the value with
\* its data-URI prefix removed, under the MIME type its prefix alone
\* determines: jpeg when the value has no png, gif or webp prefix, also
\* when such a marker occurs later in the value.
C24_MimeFromPrefixAlone ==
  \A s \in Slots :
    Resolved(s) /\ PostsImage(s) =>
      /\ inv[s].log[1].verb = "v2.uploadMedia"
      /\ inv[s].log[1].upload.mime = MimeFromPrefix(inv[s].image.chars)
      /\ inv[s].log[1].upload.bytes =
           Base64Decode(StripDataUri(inv[s].image.chars))

-----------------------------------------------------------------------------
(* Overlapped calls of different callers.                                  *)

\* C25: in per-call mode, under any interleaving of overlapped calls, every
\* remote call of an invocation, the second step of a two-step operation
\* included, is made with the handle that invocation constructed, and that
\* handle was built from the invocation's own accessToken.
C25_OwnHandleOnEveryCall ==
  mode = "percall" =>
    \A s \in Slots :
      Resolved(s) =>
        /\ inv[s].made \in DOMAIN handles
        /\ handles[inv[s].made] = inv[s].config.accessToken
        /\ \A k \in DOMAIN inv[s].log : inv[s].log[k].handle = inv[s].made

\* A two-step invocation issued its second call after an overlapped call of
\* another caller had replaced the handle stored in the shared service.
C25_Witness ==
  \E s, t \in Slots :
    /\ Resolved(s) /\ Resolved(t)
    /\ inv[s].config.accessToken = "tokA"
    /\ inv[t].config.accessToken = "tokB"
    /\ inv[s].made < inv[t].made
    /\ client = inv[t].made
    /\ inv[t].pc \in {"await1", "await2"}
    /\ Len(inv[s].log) = 2
    /\ inv[s].log[2].handle = inv[s].made

-----------------------------------------------------------------------------
(* The static variant while the environment changes.                       *)

\* A call arrives in slot s and passes validation in this step.
Accepted(s) ==
  /\ inv[s].pc = "idle"
  /\ inv'[s].pc # "idle"
  /\ inv'[s].response # Rejected

\* C26: in static mode a resolution that fails leaves the cached handle
\* unset and answers with the missing-credential error; a call that finds
\* no cached handle and the four secrets present constructs the handle and
\* caches it; once a handle is cached every call resolves with it, without
\* constructing another, whatever the environment holds by then, and the
\* cached handle is never unset or replaced.
C26_EnvRecheckedUntilCached ==
  [][mode = "static" =>
       /\ \A s \in Slots :
            Accepted(s) =>
              /\ (client = NoClient /\ env # Secrets =>
                    /\ client' = NoClient /\ handles' = handles
                    /\ inv'[s].client = NoClient
                    /\ inv'[s].response = Envelope(CredentialsNotConfigured))
              /\ (client = NoClient /\ env = Secrets =>
                    /\ client' # NoClient
                    /\ Len(handles') = Len(handles) + 1
                    /\ inv'[s].client = client'
                    /\ inv'[s].pc = "await1")
              /\ (client # NoClient =>
                    /\ handles' = handles
                    /\ inv'[s].client = client
                    /\ inv'[s].pc = "await1")
       /\ (client # NoClient => client' = client)]_vars

\* A call failed for a missing secret, a later call found the secrets,
\* constructed the handle and cached it, and the secrets are gone again.
C26_Witness ==
  /\ mode = "static"
  /\ env # Secrets
  /\ client # NoClient
  /\ \E s, t \in Slots :
       /\ inv[s].pc = "done"
       /\ inv[s].response = Envelope(CredentialsNotConfigured)
       /\ Resolved(t) /\ inv[t].made = client

-----------------------------------------------------------------------------
(* The standard output of the process.                                     *)

\* C27: in per-call mode handling a tool call writes nothing on standard
\* output besides the response envelope the transport sends: no line at
\* all, and so none that shows the caller's accessToken or refreshToken.
C27_NothingOnStdout ==
  mode = "percall" =>
    \A s \in Slots :
      /\ inv[s].stdout = <<>>
      /\ \A k \in DOMAIN inv[s].stdout :
           /\ ~Truthy(inv[s].stdout[k].accessToken)
           /\ ~Truthy(inv[s].stdout[k].refreshToken)

====
